---------------------------- MODULE Spec2Model ----------------------------
(***************************************************************************)
(* A model of the lookslike structural matcher: the Path model (render,    *)
(* parse, lookup), the schema compiler, the Strict wrapper and Compose.    *)
(*                                                                         *)
(* Go strings are modelled as sequences of one-character strings, so that  *)
(* splitting, joining, prefix tests, regular-expression matching and the   *)
(* byte-wise order used by sort.Strings are computed, not assumed.         *)
(***************************************************************************)
EXTENDS Integers, Sequences, FiniteSets, TLC

VARIABLES
    op,         \* the operation that produced the current state
    p,          \* a Path under construction (Extend / Concat)
    in,         \* a path string: rendered by Path.String or supplied by a caller
    parsed,     \* what ParsePath returned for in
    m,          \* the tree handed to Path.GetFrom
    got,        \* what Path.GetFrom returned (or that it panicked)
    actual,     \* the actual tree handed to a validator
    lax,        \* the Results the lax validator returns for actual
    results,    \* the Results a validator call returned
    schema,     \* the definition handed to Compile
    compiled,   \* what Compile returned: the validator and the error
    vresults,   \* Compose: the Results of each composed validator
    invoked     \* Compose: how often each validator was invoked

vars == <<op, p, in, parsed, m, got, actual, lax, results, schema, compiled,
          vresults, invoked>>

(***************************************************************************)
(* Bounds of the model.                                                    *)
(***************************************************************************)
MaxPathLen == 2     \* components of a Path built by Extend / Concat
MaxStrLen == 4      \* characters of a path string supplied to ParsePath
MaxSliceLen == 2    \* elements of a slice in a tree

None == [none |-> TRUE]

(***************************************************************************)
(* Strings.                                                                *)
(***************************************************************************)
DigitChars == <<"0", "1", "2", "3", "4", "5", "6", "7", "8", "9">>

IsDigit(c) == \E i \in 1..Len(DigitChars) : DigitChars[i] = c

DigitVal(c) == (CHOOSE i \in 1..Len(DigitChars) : DigitChars[i] = c) - 1

\* The byte value of a character, as compared by Go's string order.
Ord(c) ==
    CASE c = "." -> 46
      [] c = "[" -> 91
      [] c = "]" -> 93
      [] c = "a" -> 97
      [] c = "b" -> 98
      [] OTHER   -> 48 + DigitVal(c)

\* s < t in Go's byte-wise string order.
RECURSIVE StrLess(_, _)
StrLess(s, t) ==
    IF t = <<>> THEN FALSE
    ELSE IF s = <<>> THEN TRUE
    ELSE IF Head(s) = Head(t) THEN StrLess(Tail(s), Tail(t))
    ELSE Ord(Head(s)) < Ord(Head(t))

\* strings.HasPrefix(s, prefix)
HasPrefix(s, prefix) ==
    /\ Len(prefix) <= Len(s)
    /\ SubSeq(s, 1, Len(prefix)) = prefix

\* strings.Join(parts, ".")
RECURSIVE Join(_)
Join(parts) ==
    IF parts = <<>> THEN <<>>
    ELSE IF Len(parts) = 1 THEN parts[1]
    ELSE parts[1] \o <<".">> \o Join(Tail(parts))

\* strings.Split(s, "."): always at least one part, "" included.
RECURSIVE Split(_)
Split(s) ==
    IF \A i \in 1..Len(s) : s[i] # "." THEN <<s>>
    ELSE LET i == CHOOSE j \in 1..Len(s) :
                      s[j] = "." /\ \A k \in 1..(j - 1) : s[k] # "."
         IN  <<SubSeq(s, 1, i - 1)>> \o Split(SubSeq(s, i + 1, Len(s)))

\* strconv.Atoi on a run of decimal digits (the runs of the model are far
\* shorter than the 19 digits at which Atoi reports a range error).
RECURSIVE Atoi(_)
Atoi(d) ==
    IF d = <<>> THEN 0
    ELSE 10 * Atoi(SubSeq(d, 1, Len(d) - 1)) + DigitVal(d[Len(d)])

\* The %d verb of fmt.Sprintf for a non-negative int.
RECURSIVE Itoa(_)
Itoa(n) ==
    IF n < 10 THEN <<DigitChars[n + 1]>>
    ELSE Itoa(n \div 10) \o <<DigitChars[(n % 10) + 1]>>

\* arrMatcher.FindStringSubmatch(part) for the pattern \[(\d+)\]: the
\* leftmost match anywhere in part; sub is the captured digit run.
MatchAt(part, i, j) ==
    /\ part[i] = "["
    /\ part[j] = "]"
    /\ j > i + 1
    /\ \A k \in (i + 1)..(j - 1) : IsDigit(part[k])

arrMatcher(part) ==
    LET starts == {i \in 1..Len(part) : \E j \in 1..Len(part) : MatchAt(part, i, j)}
    IN  IF starts = {} THEN [matched |-> FALSE, sub |-> <<>>]
        ELSE LET i == CHOOSE x \in starts : \A y \in starts : x <= y
                 j == CHOOSE x \in 1..Len(part) : MatchAt(part, i, x)
             IN  [matched |-> TRUE, sub |-> SubSeq(part, i + 1, j - 1)]

(***************************************************************************)
(* Paths.                                                                  *)
(***************************************************************************)
pcMapKey == 1
pcSliceIdx == 2

pathComponent(type, key, index) == [Type |-> type, Key |-> key, Index |-> index]

\* pathComponent.String
pcString(pc) ==
    IF pc.Type = pcSliceIdx THEN <<"[">> \o Itoa(pc.Index) \o <<"]">>
    ELSE pc.Key

Extend(path, pc) == Append(path, pc)

ExtendSlice(path, index) == Extend(path, pathComponent(pcSliceIdx, <<>>, index))

ExtendMap(path, key) == Extend(path, pathComponent(pcMapKey, key, -1))

Concat(path, other) == path \o other

\* Path.String
String(path) == Join([i \in 1..Len(path) |-> pcString(path[i])])

\* ParsePath: the path and whether an error is returned (p is nil with it).
ParsePart(part) ==
    LET r == arrMatcher(part)
    IN  IF r.matched THEN pathComponent(pcSliceIdx, <<>>, Atoi(r.sub))
        ELSE pathComponent(pcMapKey, part, -1)

ParsePath(str) ==
    LET keyParts == Split(str)
    IN  IF \E i \in 1..Len(keyParts) :
               ~arrMatcher(keyParts[i]).matched /\ Len(keyParts[i]) = 0
        THEN [p |-> <<>>, err |-> TRUE]
        ELSE [p |-> [i \in 1..Len(keyParts) |-> ParsePart(keyParts[i])],
              err |-> FALSE]


(***************************************************************************)
(* Value trees: a map, a slice, a scalar, nil, or (in a schema) an IsDef.  *)
(***************************************************************************)
Nil == [k |-> "nil"]

Scalar(v) == [k |-> "scalar", v |-> v]

MapOf(f) == [k |-> "map", m |-> f]

SliceOf(s) == [k |-> "slice", s |-> s]

interfaceToMap(value) == value.m

sliceToSliceOfInterfaces(value) == value.s

\* The outcomes of Path.GetFrom: a (value, exists) pair, or a run-time panic.
Found(value) == [panic |-> FALSE, value |-> value, exists |-> TRUE]

NotFound == [panic |-> FALSE, value |-> Nil, exists |-> FALSE]

Panic == [panic |-> TRUE, value |-> Nil, exists |-> FALSE]

\* Path.GetFrom.  The switch is on the kind of the current value only:
\*  - reflect.TypeOf(nil) is the nil Type, whose Kind() call panics;
\*  - a map is indexed by pc.Key, which is "" for a slice-index component;
\*  - a slice is indexed by pc.Index, which is -1 for a map-key component,
\*    and converted[-1] panics.
RECURSIVE GetFrom(_, _)
GetFrom(path, value) ==
    IF path = <<>> THEN Found(value)
    ELSE LET pc == Head(path)
         IN  CASE value.k = "nil" -> Panic
               [] value.k = "map" ->
                    LET converted == interfaceToMap(value)
                    IN  IF pc.Key \in DOMAIN converted
                        THEN GetFrom(Tail(path), converted[pc.Key])
                        ELSE NotFound
               [] value.k = "slice" ->
                    LET converted == sliceToSliceOfInterfaces(value)
                    IN  IF pc.Index < Len(converted)
                        THEN IF pc.Index < 0 THEN Panic
                             ELSE GetFrom(Tail(path), converted[pc.Index + 1])
                        ELSE NotFound
               [] OTHER -> NotFound

(***************************************************************************)
(* The inputs of the Path operations.                                      *)
(***************************************************************************)
\* Map keys: plain ones, and ones holding the characters the renderer uses.
PathKeys == {<<"a">>, <<"b">>, <<"a", ".", "b">>, <<"[", "0", "]">>,
             <<"a", "[", "0", "]">>, <<>>}

InputChars == {".", "[", "]", "0", "a"}

RECURSIVE StringsOfLen(_)
StringsOfLen(n) ==
    IF n = 0 THEN {<<>>}
    ELSE {Append(s, c) : s \in StringsOfLen(n - 1), c \in InputChars}

InputStrings == UNION {StringsOfLen(n) : n \in 0..MaxStrLen}

GetKeys == {<<"a">>, <<>>}

GetLeaves == {Nil, Scalar(0), MapOf(<<>>), SliceOf(<<>>)}

SlicesOver(S) == UNION {[1..n -> S] : n \in 1..MaxSliceLen}

GetTrees1 ==
    GetLeaves
        \cup {MapOf(f) : f \in UNION {[K -> GetLeaves] : K \in SUBSET GetKeys \ {{}}}}
        \cup {SliceOf(s) : s \in SlicesOver(GetLeaves)}

GetTrees ==
    GetTrees1
        \cup {MapOf(f) : f \in UNION {[{key} -> GetTrees1] : key \in GetKeys}}
        \cup {SliceOf(<<t>>) : t \in GetTrees1}

(***************************************************************************)
(* The Path operations as a state machine.                                 *)
(***************************************************************************)
NoParse == [p |-> <<>>, err |-> FALSE]

InitPath ==
    /\ op = "new"
    /\ p = <<>>
    /\ in = <<>>
    /\ parsed = NoParse
    /\ m = Nil
    /\ got = NotFound
    /\ actual = Nil
    /\ lax = None
    /\ results = None
    /\ schema = Nil
    /\ compiled = None
    /\ vresults = <<>>
    /\ invoked = <<>>

OtherVars == <<actual, lax, results, schema, compiled, vresults, invoked>>

Building == op \in {"new", "Extend", "Concat"}

DoExtendMap(key) ==
    /\ Building
    /\ Len(p) < MaxPathLen
    /\ p' = ExtendMap(p, key)
    /\ op' = "Extend"
    /\ UNCHANGED <<in, parsed, m, got, OtherVars>>

DoExtendSlice(index) ==
    /\ Building
    /\ Len(p) < MaxPathLen
    /\ p' = ExtendSlice(p, index)
    /\ op' = "Extend"
    /\ UNCHANGED <<in, parsed, m, got, OtherVars>>

DoConcat ==
    /\ Building
    /\ p # <<>>
    /\ 2 * Len(p) <= MaxPathLen
    /\ p' = Concat(p, p)
    /\ op' = "Concat"
    /\ UNCHANGED <<in, parsed, m, got, OtherVars>>

DoString ==
    /\ Building
    /\ in' = String(p)
    /\ op' = "String"
    /\ UNCHANGED <<p, parsed, m, got, OtherVars>>

DoInput(str) ==
    /\ op = "new"
    /\ in' = str
    /\ op' = "Input"
    /\ UNCHANGED <<p, parsed, m, got, OtherVars>>

DoParsePath ==
    /\ op \in {"String", "Input"}
    /\ parsed' = ParsePath(in)
    /\ op' = IF op = "String" THEN "ParseRendered" ELSE "ParseInput"
    /\ UNCHANGED <<p, in, m, got, OtherVars>>

DoGetFrom(tree) ==
    /\ Building
    /\ m' = tree
    /\ got' = GetFrom(p, tree)
    /\ op' = "GetFrom"
    /\ UNCHANGED <<p, in, parsed, OtherVars>>

NextPath ==
    \/ \E key \in PathKeys : DoExtendMap(key)
    \/ \E index \in 0..MaxSliceLen : DoExtendSlice(index)
    \/ DoConcat
    \/ DoString
    \/ \E str \in InputStrings : DoInput(str)
    \/ DoParsePath
    \/ \E tree \in GetTrees : DoGetFrom(tree)

SpecPath == InitPath /\ [][NextPath]_vars

(***************************************************************************)
(* Claims about the Path model.                                            *)
(***************************************************************************)
\* The lookup the documentation describes: a map-key component resolves on
\* a map holding the key, a slice-index component on a slice holding the
\* index; anything else is (nil, false).
RECURSIVE RefLookup(_, _)
RefLookup(path, value) ==
    IF path = <<>> THEN Found(value)
    ELSE LET pc == Head(path)
         IN  IF /\ pc.Type = pcMapKey
                /\ value.k = "map"
                /\ pc.Key \in DOMAIN value.m
             THEN RefLookup(Tail(path), value.m[pc.Key])
             ELSE IF /\ pc.Type = pcSliceIdx
                     /\ value.k = "slice"
                     /\ pc.Index + 1 \in DOMAIN value.s
                  THEN RefLookup(Tail(path), value.s[pc.Index + 1])
                  ELSE NotFound

\* C2: Path.GetFrom never panics and returns what the reference lookup
\* returns, for every Path and every tree.
C2_GetFromTotal ==
    op = "GetFrom" => got = RefLookup(p, m)

\* C3: a Path built by ExtendMap, ExtendSlice and Concat is parsed back,
\* without error and component by component, from its rendered string.
C3_RoundTrip ==
    op = "ParseRendered" => parsed = [p |-> p, err |-> FALSE]

\* A segment the path grammar rules out: an empty one, an index token with
\* characters around it, or brackets around something that is no number.
HasIndexToken(seg) ==
    \E i, j \in 1..Len(seg) : MatchAt(seg, i, j)

ExactIndex(seg) ==
    Len(seg) >= 3 /\ MatchAt(seg, 1, Len(seg))

MalformedSegment(seg) ==
    \/ seg = <<>>
    \/ HasIndexToken(seg) /\ ~ExactIndex(seg)
    \/ /\ Len(seg) >= 2
       /\ seg[1] = "["
       /\ seg[Len(seg)] = "]"
       /\ ~ExactIndex(seg)

Malformed(str) ==
    \E i \in 1..Len(Split(str)) : MalformedSegment(Split(str)[i])

\* C8: ParsePath returns an error for every string with a malformed segment.
C8_MalformedRejected ==
    (op = "ParseInput" /\ Malformed(in)) => parsed.err

(***************************************************************************)
(* Results: rendered path -> outcome; an outcome carries its path.         *)
(***************************************************************************)
ValueResult(path, valid, message) ==
    [Valid |-> valid, Message |-> message, Path |-> path]

NewResults == [Fields |-> [key \in {} |-> None]]

Put(f, key, value) ==
    [x \in DOMAIN f \cup {key} |-> IF x = key THEN value ELSE f[x]]

\* Results.record: the entry of the rendered path is (over)written.
record(res, path, vr) == [Fields |-> Put(res.Fields, String(path), vr)]

\* Results.merge: every entry of other is recorded again.
merge(res, other) ==
    [Fields |-> [key \in DOMAIN res.Fields \cup DOMAIN other.Fields |->
                    IF key \in DOMAIN other.Fields
                    THEN other.Fields[key] ELSE res.Fields[key]]]

\* Results.Valid: no recorded outcome failed.
Succeeded(res) == \A key \in DOMAIN res.Fields : res.Fields[key].Valid

StrictFailureResult(path) ==
    record(NewResults, path, ValueResult(path, FALSE, "unexpected key"))

(***************************************************************************)
(* The tree walker: the observer sees every node, the root first, a map's  *)
(* entries by map-key component, a slice's elements by index 0..n-1.       *)
(* Go ranges over a map in an unspecified order; the keys are taken in     *)
(* sorted order here.  What the observers build from a walk (Results keyed *)
(* by rendered path, the flat validators of a path) is the same for every  *)
(* order as long as distinct visited paths render differently, which the   *)
(* schema keys of the model do.                                            *)
(***************************************************************************)
RECURSIVE SortStrings(_)
SortStrings(S) ==
    IF S = {} THEN <<>>
    ELSE LET least == CHOOSE x \in S : \A y \in S \ {x} : StrLess(x, y)
         IN  <<least>> \o SortStrings(S \ {least})

RECURSIVE Flatten(_)
Flatten(seqs) ==
    IF seqs = <<>> THEN <<>> ELSE Head(seqs) \o Flatten(Tail(seqs))

walkObserverInfo(value, path) == [value |-> value, path |-> path]

RECURSIVE walkFull(_, _)
walkFull(o, path) ==
    <<walkObserverInfo(o, path)>> \o
    CASE o.k = "map" ->
           LET converted == interfaceToMap(o)
               keys == SortStrings(DOMAIN converted)
           IN  Flatten([i \in 1..Len(keys) |->
                           walkFull(converted[keys[i]], ExtendMap(path, keys[i]))])
      [] o.k = "slice" ->
           LET converted == sliceToSliceOfInterfaces(o)
           IN  Flatten([i \in 1..Len(converted) |->
                           walkFull(converted[i], ExtendSlice(path, i - 1))])
      [] OTHER -> <<>>

walk(tree) == walkFull(tree, <<>>)

(***************************************************************************)
(* Strict.                                                                 *)
(***************************************************************************)
\* sort.SearchStrings on a sorted list: the least index (from 0) whose
\* element is >= x, the length of the list if there is none.
SearchStrings(a, x) ==
    LET hits == {i \in 1..Len(a) : ~StrLess(a[i], x)}
    IN  IF hits = {} THEN Len(a)
        ELSE (CHOOSE i \in hits : \A j \in hits : i <= j) - 1

\* The observer Strict hands to walk.
StrictObserveExactOnly(res, validatedPaths, woi) ==
    IF String(woi.path) \in DOMAIN res.Fields THEN res
    ELSE merge(res, StrictFailureResult(woi.path))

StrictObserveReplaces(res, validatedPaths, woi) ==
    LET str == String(woi.path)
        matchIdx == SearchStrings(validatedPaths, str)
    IN  IF str \in DOMAIN res.Fields THEN res
        ELSE IF /\ matchIdx < Len(validatedPaths)
                /\ HasPrefix(validatedPaths[matchIdx + 1], str)
             THEN res
             ELSE StrictFailureResult(woi.path)

StrictObserve(res, validatedPaths, woi) ==
    LET str == String(woi.path)
        matchIdx == SearchStrings(validatedPaths, str)
        validatedExactly == str \in DOMAIN res.Fields
    IN  IF validatedExactly THEN res
        ELSE IF /\ matchIdx < Len(validatedPaths)
                /\ HasPrefix(validatedPaths[matchIdx + 1], str)
             THEN res
             ELSE merge(res, StrictFailureResult(woi.path))

RECURSIVE StrictWalk(_, _, _)
StrictWalk(res, validatedPaths, infos) ==
    IF infos = <<>> THEN res
    ELSE StrictWalk(StrictObserve(res, validatedPaths, Head(infos)),
                    validatedPaths, Tail(infos))

\* What a validator call yields when it does not return: a panic.
ValidatorPanic == [panicked |-> TRUE]

Returned(res) == "Fields" \in DOMAIN res

\* Strict(laxValidator)(actual), given what laxValidator(actual) yielded.
Strict(laxResults, tree) ==
    IF ~Returned(laxResults) THEN ValidatorPanic
    ELSE LET validatedPaths == SortStrings(DOMAIN laxResults.Fields)
         IN  StrictWalk(laxResults, validatedPaths, walk(tree))

(***************************************************************************)
(* Strict as a state machine: any actual tree, any lax Results.            *)
(***************************************************************************)
TreeKeys == {<<"a">>, <<"a", "b">>, <<"b">>, <<"a", ".", "b">>}

TreeLeaves == {Scalar(0), MapOf(<<>>)}

MapsOver(Keys, S, width) ==
    {MapOf(f) : f \in UNION {[K -> S] : K \in {X \in SUBSET Keys :
                                                  Cardinality(X) \in 1..width}}}

StrictTrees1 ==
    TreeLeaves \cup MapsOver(TreeKeys, TreeLeaves, 2)
               \cup {SliceOf(s) : s \in SlicesOver(TreeLeaves)}

StrictTrees ==
    StrictTrees1 \cup MapsOver(TreeKeys, StrictTrees1, 1)
                 \cup {SliceOf(<<t>>) : t \in StrictTrees1}

RecordedKeys == {<<"a">>, <<"a", "b">>, <<"b">>}

RecordedComponents ==
    {pathComponent(pcMapKey, key, -1) : key \in RecordedKeys}
        \cup {pathComponent(pcSliceIdx, <<>>, 0)}

RecordedPaths ==
    {<<>>} \cup {<<c>> : c \in RecordedComponents}
        \cup {<<c, d>> : c \in RecordedComponents, d \in RecordedComponents}

RecordedEntries ==
    {ValueResult(path, valid, "lax") : path \in RecordedPaths, valid \in BOOLEAN}

LaxResults ==
    {NewResults}
        \cup {record(NewResults, e.Path, e) : e \in RecordedEntries}
        \cup {record(record(NewResults, e.Path, e), f.Path, f) :
                  e \in RecordedEntries, f \in RecordedEntries}

InitStrict ==
    /\ op = "new"
    /\ p = <<>>
    /\ in = <<>>
    /\ parsed = NoParse
    /\ m = Nil
    /\ got = NotFound
    /\ actual \in StrictTrees
    /\ lax \in LaxResults \cup {ValidatorPanic}
    /\ results = None
    /\ schema = Nil
    /\ compiled = None
    /\ vresults = <<>>
    /\ invoked = <<>>

DoStrict ==
    /\ op = "new"
    /\ results' = Strict(lax, actual)
    /\ op' = "Strict"
    /\ UNCHANGED <<p, in, parsed, m, got, actual, lax, schema, compiled,
                   vresults, invoked>>

NextStrict == DoStrict

SpecStrict == InitStrict /\ [][NextStrict]_vars

(***************************************************************************)
(* Claims about Strict.                                                    *)
(***************************************************************************)
\* path is a component-wise proper ancestor of other.
IsAncestor(path, other) ==
    /\ Len(path) < Len(other)
    /\ SubSeq(other, 1, Len(path)) = path

Visited == {walk(actual)[i].path : i \in 1..Len(walk(actual))}

\* The paths the lax validator recorded.
Recorded == {lax.Fields[key].Path : key \in DOMAIN lax.Fields}

RecordedExactly(path) == String(path) \in DOMAIN lax.Fields

HasRecordedDescendant(path) == \E r \in Recorded : IsAncestor(path, r)

Covered(path) == RecordedExactly(path) \/ HasRecordedDescendant(path)

Flagged(res, path) ==
    /\ String(path) \in DOMAIN res.Fields
    /\ ~res.Fields[String(path)].Valid
    /\ res.Fields[String(path)].Message = "unexpected key"

\* C1: Strict flags every visited path of the actual tree that is neither
\* recorded by the lax validator nor an ancestor of a recorded path.
C1_StrictComplete ==
    (op = "Strict" /\ Returned(lax)) => \A path \in Visited : ~Covered(path) => Flagged(results, path)

\* C9: Strict never flags a visited path that is recorded or that is an
\* ancestor of a recorded path: the first sorted recorded path not below
\* the rendering of such an ancestor has that rendering as a prefix.
C9_StrictSound ==
    (op = "Strict" /\ Returned(lax)) =>
        \A path \in Visited :
            /\ Covered(path) => ~Flagged(results, path)
            /\ HasRecordedDescendant(path) =>
                   LET validatedPaths == SortStrings(DOMAIN lax.Fields)
                       matchIdx == SearchStrings(validatedPaths, String(path))
                   IN  /\ matchIdx < Len(validatedPaths)
                       /\ HasPrefix(validatedPaths[matchIdx + 1], String(path))

\* An ancestor of a recorded path is visited and not flagged, another
\* recorded path sorts between the two, and elsewhere a path is flagged.
C9_Witness ==
    /\ op = "Strict"
    /\ Returned(lax)
    /\ \E path \in Visited :
           /\ ~RecordedExactly(path)
           /\ path # <<>>
           /\ ~Flagged(results, path)
           /\ \E r \in Recorded, key \in DOMAIN lax.Fields :
                  /\ IsAncestor(path, r)
                  /\ StrLess(String(path), key)
                  /\ StrLess(key, String(r))
    /\ \E path \in Visited : Flagged(results, path)

\* C10: Strict keeps every outcome of the lax Results, adds only failing
\* "unexpected key" outcomes at paths the lax validator did not record,
\* and so succeeds only if the lax Results succeed.
C10_StrictOnlyAdds ==
    (op = "Strict" /\ Returned(lax)) =>
        /\ Returned(results)
        /\ \A key \in DOMAIN lax.Fields :
               /\ key \in DOMAIN results.Fields
               /\ results.Fields[key] = lax.Fields[key]
        /\ \A key \in DOMAIN results.Fields \ DOMAIN lax.Fields :
               /\ ~results.Fields[key].Valid
               /\ results.Fields[key].Message = "unexpected key"
        /\ Succeeded(results) => Succeeded(lax)

\* Strict added a failure to lax Results that had succeeded with entries.
C10_Witness ==
    /\ op = "Strict"
    /\ Returned(lax)
    /\ DOMAIN lax.Fields # {}
    /\ Succeeded(lax)
    /\ DOMAIN results.Fields # DOMAIN lax.Fields
    /\ ~Succeeded(results)

(***************************************************************************)
(* Predicates (IsDef) and the evaluation of a compiled schema.             *)
(***************************************************************************)
\* Is(name, checker); a name is kept as the sequence of its pieces.
Is(name, checker) ==
    [k |-> "isdef", Name |-> <<name>>, Optional |-> FALSE, Checker |-> checker]

\* Optional(id): a copy with the name prefixed and the flag set.
Optional(id) ==
    [id EXCEPT !.Name = <<"Optional ">> \o id.Name, !.Optional = TRUE]

\* The default predicate of a schema leaf: deep equality with its value.
IsEqual(value) == Is("equals", [eq |-> value])

\* A checker of the predicate library: "any" accepts every value, "never"
\* none, an equality checker the values deeply equal to its own.
CheckerValid(checker, value) ==
    IF "eq" \in DOMAIN checker THEN value = checker.eq
    ELSE checker.name = "any"

\* IsDef.Check: an absent value passes an optional predicate and fails any
\* other; a present value is handed to the checker.
IsDefCheck(id, path, value, exists) ==
    IF ~exists
    THEN record(NewResults, path, ValueResult(path, id.Optional, "missing"))
    ELSE record(NewResults, path,
                ValueResult(path, CheckerValid(id.Checker, value), id.Name))

flatValidator(path, isDef) == [path |-> path, isDef |-> isDef]

\* CompiledSchema.Check: each flat validator looks its path up in the actual
\* tree and records the outcome of its predicate.
RECURSIVE CheckFrom(_, _, _)
CheckFrom(res, flat, tree) ==
    IF flat = <<>> THEN res
    ELSE LET fv == Head(flat)
             found == GetFrom(fv.path, tree)
         IN  IF found.panic THEN ValidatorPanic
             ELSE CheckFrom(
                      merge(res, IsDefCheck(fv.isDef, fv.path, found.value, found.exists)),
                      Tail(flat), tree)

Check(flat, tree) == CheckFrom(NewResults, flat, tree)

(***************************************************************************)
(* Compile.                                                                *)
(***************************************************************************)
\* The observer of setupWalkObserver applied to one node: the compiled
\* schema grows by a flat validator unless the node is a non-empty collection.
observeScalarsOnly(flat, current) ==
    LET isCollection == current.value.k \in {"map", "slice"}
        isDef == IF current.value.k = "isdef" THEN current.value
                 ELSE IsEqual(current.value)
    IN  IF ~isCollection THEN Append(flat, flatValidator(current.path, isDef))
        ELSE flat

observe(flat, current) ==
    LET kind == current.value.k
        isCollection == kind = "map" \/ kind = "slice"
        isNonEmptyCollection ==
            isCollection /\ (IF kind = "map"
                              THEN Cardinality(DOMAIN current.value.m) > 0
                              ELSE Len(current.value.s) > 0)
        isIsDef == kind = "isdef"
        isDef == IF isIsDef THEN current.value ELSE IsEqual(current.value)
    IN  IF ~isNonEmptyCollection
        THEN Append(flat, flatValidator(current.path, isDef))
        ELSE flat

\* The observer returns nil on every node.
observeError(current) == FALSE

RECURSIVE observeEach(_, _)
observeEach(flat, infos) ==
    IF infos = <<>> THEN flat
    ELSE observeEach(observe(flat, Head(infos)), Tail(infos))

\* The walk of a schema with the compile observer: the compiled schema,
\* and the error of the walk (an observer error stops it).
setupWalkObserver(tree) ==
    [compiled |-> observeEach(<<>>, walk(tree)),
     err      |-> \E i \in 1..Len(walk(tree)) : observeError(walk(tree)[i])]

NilValidator == [kind |-> "nil", compiled |-> <<>>, def |-> None]

compileMap(def) ==
    LET wo == setupWalkObserver(def)
    IN  [validator |-> [kind |-> "lax", compiled |-> wo.compiled, def |-> None],
         err |-> wo.err]

compileSlice(def) ==
    LET wo == setupWalkObserver(def)
    IN  [validator |-> [kind |-> "strict", compiled |-> wo.compiled, def |-> None],
         err |-> wo.err]

compileIsDef(def) ==
    [validator |-> [kind |-> "isdef", compiled |-> <<>>, def |-> def],
     err |-> FALSE]

CompileNoIsDef(def) ==
    CASE def.k = "map"   -> compileMap(def)
      [] def.k = "slice" -> compileSlice(def)
      [] OTHER           -> [validator |-> NilValidator, err |-> TRUE]

Compile(def) ==
    CASE def.k = "map"   -> compileMap(def)
      [] def.k = "slice" -> compileSlice(def)
      [] def.k = "isdef" -> compileIsDef(def)
      [] OTHER           -> [validator |-> NilValidator, err |-> TRUE]

\* MustCompile: the validator of Compile, a panic if Compile reports an error.
MustCompile(def) ==
    LET c == Compile(def)
    IN  IF c.err THEN [validator |-> NilValidator, panic |-> TRUE]
        ELSE [validator |-> c.validator, panic |-> FALSE]

\* A call of a compiled validator.
Validate(validator, tree) ==
    CASE validator.kind = "lax" -> Check(validator.compiled, tree)
      [] validator.kind = "strict" ->
           Strict(Check(validator.compiled, tree), tree)
      [] validator.kind = "isdef" -> IsDefCheck(validator.def, <<>>, tree, TRUE)

(***************************************************************************)
(* Compile and validate as a state machine.                                *)
(***************************************************************************)
SchemaKeys == {<<"a">>, <<"b">>}

IsDefs == {Is("any", [name |-> "any"]), Optional(Is("never", [name |-> "never"]))}

SchemaLeaves == {Scalar(0), Nil, MapOf(<<>>), SliceOf(<<>>)} \cup IsDefs

SchemaTrees1 ==
    SchemaLeaves \cup MapsOver(SchemaKeys, SchemaLeaves, 2)
                 \cup {SliceOf(s) : s \in SlicesOver(SchemaLeaves)}

Schemas ==
    SchemaTrees1 \cup MapsOver(SchemaKeys, SchemaTrees1, 1)
                 \cup {SliceOf(<<t>>) : t \in SchemaTrees1}

ActualLeaves == {Scalar(0), Scalar(1), Nil, MapOf(<<>>)}

ActualTrees1 ==
    ActualLeaves \cup MapsOver(SchemaKeys, ActualLeaves, 2)
                 \cup {SliceOf(<<>>)}
                 \cup {SliceOf(s) : s \in SlicesOver(ActualLeaves)}

ActualTrees ==
    ActualTrees1 \cup MapsOver(SchemaKeys, ActualTrees1, 1)
                 \cup {SliceOf(<<t>>) : t \in ActualTrees1}

InitCompile ==
    /\ op = "new"
    /\ p = <<>>
    /\ in = <<>>
    /\ parsed = NoParse
    /\ m = Nil
    /\ got = NotFound
    /\ actual = Nil
    /\ lax = None
    /\ results = None
    /\ schema \in Schemas
    /\ compiled = None
    /\ vresults = <<>>
    /\ invoked = <<>>

DoCompile ==
    /\ op = "new"
    /\ compiled' = Compile(schema)
    /\ op' = "Compile"
    /\ UNCHANGED <<p, in, parsed, m, got, actual, lax, results, schema,
                   vresults, invoked>>

DoMustCompile ==
    /\ op = "new"
    /\ compiled' = MustCompile(schema)
    /\ op' = "MustCompile"
    /\ UNCHANGED <<p, in, parsed, m, got, actual, lax, results, schema,
                   vresults, invoked>>

DoValidate(tree) ==
    /\ op = "Compile"
    /\ ~compiled.err
    /\ actual' = tree
    /\ results' = Validate(compiled.validator, tree)
    /\ op' = "Validate"
    /\ UNCHANGED <<p, in, parsed, m, got, lax, schema, compiled, vresults, invoked>>

NextCompile ==
    \/ DoCompile
    \/ DoMustCompile
    \/ \E tree \in ActualTrees : DoValidate(tree)

SpecCompile == InitCompile /\ [][NextCompile]_vars

(***************************************************************************)
(* Claims about Compile.                                                   *)
(***************************************************************************)
Compilable(def) == def.k \in {"map", "slice", "isdef"}

SchemaComponents ==
    {pathComponent(pcMapKey, key, -1) : key \in SchemaKeys}
        \cup {pathComponent(pcSliceIdx, <<>>, i) : i \in 0..(MaxSliceLen - 1)}

SchemaPaths ==
    {<<>>} \cup {<<c>> : c \in SchemaComponents}
           \cup {<<c, d>> : c \in SchemaComponents, d \in SchemaComponents}

IsLeafNode(node) ==
    \/ node.k \in {"scalar", "nil", "isdef"}
    \/ node.k = "map" /\ node.m = <<>>
    \/ node.k = "slice" /\ node.s = <<>>

FlatAt(flat, path) == {i \in 1..Len(flat) : flat[i].path = path}

\* C7: the compiled schema holds exactly one flat validator for each node of
\* the schema that is a scalar, an IsDef or an empty collection (the IsDef
\* itself, else equality with the node), none for a non-empty collection,
\* and none anywhere else.
C7_LeafClassification ==
    (op = "Compile" /\ schema.k \in {"map", "slice"}) =>
        LET flat == compiled.validator.compiled
        IN  /\ \A i \in 1..Len(flat) : flat[i].path \in SchemaPaths
            /\ \A path \in SchemaPaths :
                   LET node == RefLookup(path, schema)
                   IN  IF node.exists /\ IsLeafNode(node.value)
                       THEN /\ Cardinality(FlatAt(flat, path)) = 1
                            /\ \A i \in FlatAt(flat, path) :
                                   flat[i].isDef =
                                       IF node.value.k = "isdef" THEN node.value
                                       ELSE IsEqual(node.value)
                       ELSE FlatAt(flat, path) = {}

\* A schema with a non-empty map holding an empty map, an IsDef and a scalar
\* side by side was compiled.
C7_Witness ==
    /\ op = "Compile"
    /\ schema.k = "slice"
    /\ Len(schema.s) = 1
    /\ schema.s[1].k = "map"
    /\ \E x, y \in DOMAIN schema.s[1].m :
           /\ schema.s[1].m[x] = MapOf(<<>>)
           /\ schema.s[1].m[y].k = "isdef"
    /\ Len(compiled.validator.compiled) = 2

\* An actual element satisfies a schema element: a predicate accepts it, a
\* leaf equals it, a non-empty collection matches it entry by entry.
RECURSIVE Satisfies(_, _)
Satisfies(def, value) ==
    CASE def.k = "isdef" -> CheckerValid(def.Checker, value)
      [] def.k = "map" /\ def.m # <<>> ->
           /\ value.k = "map"
           /\ DOMAIN value.m = DOMAIN def.m
           /\ \A key \in DOMAIN def.m : Satisfies(def.m[key], value.m[key])
      [] def.k = "slice" /\ def.s # <<>> ->
           /\ value.k = "slice"
           /\ Len(value.s) = Len(def.s)
           /\ \A i \in 1..Len(def.s) : Satisfies(def.s[i], value.s[i])
      [] OTHER -> value = def

\* C4: the validator compiled from a Slice schema of length n fails on an
\* actual slice with more than n elements, with an "unexpected key" failure
\* at each extra index, and succeeds on an actual slice of n elements that
\* each satisfy their schema element.
C4_SequencesStrict ==
    (op = "Validate" /\ schema.k = "slice" /\ actual.k = "slice") =>
        /\ Len(actual.s) > Len(schema.s) =>
               /\ Returned(results)
               /\ ~Succeeded(results)
               /\ \A i \in Len(schema.s)..(Len(actual.s) - 1) :
                      Flagged(results, ExtendSlice(<<>>, i))
        /\ Satisfies(schema, actual) =>
               /\ Returned(results)
               /\ Succeeded(results)

(***************************************************************************)
(* Compose.                                                                *)
(***************************************************************************)
MaxValidators == 2

\* The first loop of Compose: the validators are called in order on the
\* same actual value; a panic of one ends the call of Compose.
CalledUpTo(outcomes) ==
    IF \A idx \in 1..Len(outcomes) : Returned(outcomes[idx]) THEN Len(outcomes)
    ELSE CHOOSE idx \in 1..Len(outcomes) :
             /\ ~Returned(outcomes[idx])
             /\ \A j \in 1..(idx - 1) : Returned(outcomes[j])

\* The second loop of Compose: every outcome of every Results is recorded
\* into the combined Results, in the order of the validators.
RECURSIVE Combine(_, _)
Combine(combined, outcomes) ==
    IF outcomes = <<>> THEN combined
    ELSE Combine(merge(combined, Head(outcomes)), Tail(outcomes))

\* Compose(validators...)(actual): how often each validator was called, the
\* Results each call returned, and the combined Results (or the panic).
Compose(validators, tree) ==
    LET outcomes == [idx \in 1..Len(validators) |-> Validate(validators[idx], tree)]
        called == CalledUpTo(outcomes)
    IN  [invoked  |-> [idx \in 1..Len(validators) |-> IF idx <= called THEN 1 ELSE 0],
         results  |-> [idx \in 1..Len(validators) |->
                          IF idx <= called THEN outcomes[idx] ELSE None],
         combined |-> IF \A idx \in 1..Len(outcomes) : Returned(outcomes[idx])
                      THEN Combine(NewResults, outcomes)
                      ELSE ValidatorPanic]

ComposeSchemas ==
    MapsOver(SchemaKeys,
             {Scalar(0), Scalar(1), MapOf([key \in {<<"b">>} |-> Scalar(0)])}, 1)
        \cup {Is("any", [name |-> "any"])}

InitCompose ==
    /\ op = "new"
    /\ p = <<>>
    /\ in = <<>>
    /\ parsed = NoParse
    /\ m = Nil
    /\ got = NotFound
    /\ actual \in ActualTrees1
    /\ lax = None
    /\ results = None
    /\ schema \in UNION {[1..n -> ComposeSchemas] : n \in 1..MaxValidators}
    /\ compiled = [idx \in 1..Len(schema) |-> Compile(schema[idx])]
    /\ vresults = [idx \in 1..Len(schema) |-> None]
    /\ invoked = [idx \in 1..Len(schema) |-> 0]

DoCompose ==
    /\ op = "new"
    /\ LET validators == [idx \in 1..Len(compiled) |-> compiled[idx].validator]
           call == Compose(validators, actual)
       IN  /\ vresults' = call.results
           /\ invoked' = call.invoked
           /\ results' = call.combined
    /\ op' = "Compose"
    /\ UNCHANGED <<p, in, parsed, m, got, actual, lax, schema, compiled>>

NextCompose == DoCompose

SpecCompose == InitCompose /\ [][NextCompose]_vars

\* C6: Compose calls every validator exactly once on the actual value, and
\* every failing outcome of any validator is in the combined Results at its
\* path, so the combined Results fail whenever a validator's Results fail.
C6_ComposeIndependent ==
    op = "Compose" =>
        /\ \A idx \in 1..Len(vresults) : invoked[idx] = 1 /\ Returned(vresults[idx])
        /\ Returned(results)
        /\ \A idx \in 1..Len(vresults) :
               \A key \in DOMAIN vresults[idx].Fields :
                   ~vresults[idx].Fields[key].Valid =>
                       /\ key \in DOMAIN results.Fields
                       /\ results.Fields[key] = vresults[idx].Fields[key]
        /\ (\E idx \in 1..Len(vresults) : ~Succeeded(vresults[idx]))
               => ~Succeeded(results)

=============================================================================
